---- MODULE Spec2Model ----
(***************************************************************************)
(* Model of the video processing core of pulsegen.io:                      *)
(*   - ProcessingQueue (server/services/videoProcessor.js)                 *)
(*   - processVideo and its collaborators extractMetadata,                 *)
(*     generateThumbnail (videoProcessor.js), analyzeSensitivity           *)
(*     (services/sensitivityAnalyzer.js)                                   *)
(*   - the upload, delete and reprocess routes (routes/videos.js)          *)
(*   - emitVideoProgress (config/socket.js)                                *)
(*                                                                         *)
(* Node.js runs one continuation at a time, so one action of the model is  *)
(* the code that runs between two awaits.  A store operation takes effect  *)
(* in the step in which its await resumes.  Video.save() is Mongoose's     *)
(* Document.save(): it writes the modified paths and nothing else, and an  *)
(* assignment marks a path modified when the new value differs from the    *)
(* one the document holds in memory.                                       *)
(***************************************************************************)
EXTENDS Integers, Sequences, FiniteSets, TLC

\* ---------------------------------------------------------------- bounds
VideoIds == {"v1", "v2"}

\* Total number of ProcessingQueue.add() calls (uploads and reprocesses).
MaxAdds == 3

\* Total number of ProcessingQueue.add() calls in the behaviours in which no
\* collaborator fails.
MaxAddsFaultFree == 4

\* Total number of ProcessingQueue.add() calls in the behaviours checked
\* for progress.
MaxAddsLive == 3

\* The client connections of the socket server.
Connections == {"s1", "s2"}

\* The ids clients put in subscribe:user.  Clients send what they like; an
\* id that reads like that of a video is the one that could meet a video's
\* room.
UserIds == {"v1"}

\* Total number of requests to the stream route in one behaviour.
MaxRequests == 2

\* The sizes of the files streamed.
FileSizes == {0, 10, 1000}

\* The byte offsets written in range headers.
Offsets == {0, 5, 9, 10, 100, 199, 999, 1000, 2000}

\* Total number of calls of emitVideoProgress in the behaviours of the
\* socket server.
MaxPublish == 2

\* Total number of collaborator failures in one behaviour: outages of the
\* record store, subprocesses that fail, a failed import, an analysis error.
MaxFaults == 1

\* ------------------------------------------------------ program constants
\* this.concurrency = 2
concurrency == 2

\* The six stages processVideo walks through, in order, and the terminal
\* error stage (enum of processingStage in the schema).
StageOrder ==
    << "queued", "extracting_metadata", "generating_thumbnail",
       "analyzing_content", "finalizing", "done" >>

Stages == { StageOrder[k] : k \in 1..Len(StageOrder) } \cup {"error"}

Statuses == {"pending", "processing", "completed", "failed"}

StageIndex(s) == CHOOSE k \in 1..Len(StageOrder) : StageOrder[k] = s

\* Error messages a run can end with.
ErrNotFound == "Video not found"
ErrStore    == "store operation failed"
ErrNoDocument == "No document found for query"
ErrImport   == "Cannot find module sensitivityAnalyzer.js"

\* What ffprobe reports for a readable file.
ProbedMetadata ==
    [duration |-> 7, width |-> 640, height |-> 480]

\* extractMetadata: the value it resolves with.  ok = FALSE stands for a
\* spawn error, a non-zero exit code or output JSON.parse rejects; all three
\* branches resolve with the same default record.
extractMetadata(ok) ==
    IF ok THEN ProbedMetadata
    ELSE [duration |-> 0, width |-> 0, height |-> 0]

NoThumbnail == "null"

ThumbnailFile(videoId) == "thumbnails/" \o videoId \o ".jpg"

\* generateThumbnail: resolves with outputPath on exit code 0, with null on
\* a non-zero exit code or a spawn error.
generateThumbnail(outputPath, ok) ==
    IF ok THEN outputPath ELSE NoThumbnail

NoError == "null"

\* sensitivityResultSchema with its defaults: what a new record holds.  flags
\* is the set of flagged categories; details is the error message of a
\* failed analysis, "mock" for the details of a mock analysis, "none" for {}.
\* analyzedAt is left out.
PendingResult ==
    [classification |-> "pending", confidence |-> 0, flags |-> {},
     details |-> "none"]

\* An event that carries no sensitivityResult.
NoResult ==
    [classification |-> "none", confidence |-> 0, flags |-> {},
     details |-> "none"]

\* The paths of a Video document that processVideo and the reprocess route
\* assign (metadata.codec and metadata.bitrate, written together with
\* duration, are left out), with the schema's defaults and the values the
\* upload route sets.
NewVideo ==
    [status             |-> "pending",
     processingProgress |-> 0,
     processingStage    |-> "queued",
     processingError    |-> NoError,
     duration           |-> 0,
     width              |-> 0,
     height             |-> 0,
     thumbnailPath      |-> NoThumbnail,
     sensitivityResult  |-> PendingResult]

Fields == DOMAIN NewVideo

\* A document in memory: the values of its paths and the set of paths that
\* were modified since it was loaded or last saved.
Document(values) == [values |-> values, modified |-> {}]

\* doc.path = value
Assign(doc, path, value) ==
    IF doc.values[path] = value
    THEN doc
    ELSE [values   |-> [doc.values EXCEPT ![path] = value],
          modified |-> doc.modified \cup {path}]

\* doc.sensitivityResult = result: the result carries analyzedAt = new Date(),
\* so it never equals the sub-document in memory.
AssignResult(doc, sensitivityResult) ==
    [values   |-> [doc.values EXCEPT !.sensitivityResult = sensitivityResult],
     modified |-> doc.modified \cup {"sensitivityResult"}]

\* Model.findById: the document in memory.  Of the stored values only those
\* of the paths the caller goes on to read or compare are kept; the others
\* stay at their defaults and are never looked at.
Load(stored, paths) ==
    Document([f \in Fields |-> IF f \in paths THEN stored[f] ELSE NewVideo[f]])

\* Document.save(): $set of the modified paths only.
Save(stored, doc) ==
    [f \in Fields |-> IF f \in doc.modified THEN doc.values[f] ELSE stored[f]]

\* The document after a successful save.
Saved(doc) == [doc EXCEPT !.modified = {}]

\* ------------------------------------------------------------------ state
VARIABLES
    exists,      \* exists[i]: "none" (never uploaded), "stored", "deleted"
    videos,      \* videos[i]: the persisted Video document of id i
    queue,       \* ProcessingQueue.queue
    activeJobs,  \* ProcessingQueue.activeJobs
    runs,        \* the frames of the calls of processVideo in progress
    reprocess,   \* reprocess[i]: a reprocess request between its two awaits
    adds,        \* adds[i]: number of processingQueue.add(i) calls so far
    started,     \* started[i]: number of processVideo(i) calls so far
    retried,     \* retried[i]: the latest add(i) was made by a reprocess
                 \* request that had found the item failed
    storeUp,     \* whether the record store answers
    faults,      \* number of collaborator failures so far
    limits,      \* the bounds of the behaviour: limits.adds on the add()
                 \* calls, limits.faults on the collaborator failures
    sockets,     \* config/socket.js: io, the connections, their rooms and
                 \* what each connection has been sent
    stream       \* routes/stream.js: the item and file requested, the
                 \* requests served and the last response

vars == << exists, videos, queue, activeJobs, runs, reprocess, adds, started,
           retried, storeUp, faults, limits, sockets, stream >>

\* The outcomes a collaborator can still have: TRUE is success.
Outcomes == IF faults < limits.faults THEN {TRUE, FALSE} ELSE {TRUE}

Outcome(ok) == faults' = IF ok THEN faults ELSE faults + 1

RunIds == 1..Len(runs)

TotalAdds == adds["v1"] + adds["v2"]

\* No reprocess request of the item is between its awaits.  found is the
\* status the request read from the record it loaded.
Idle == [active |-> FALSE, found |-> "none", video |-> Document(NewVideo)]

InFlight == Cardinality({ i \in VideoIds : reprocess[i].active })

\* A call of processVideo(videoId), suspended at `await Video.findById`.
\* video, thumbnail and error are its locals; written is the latest
\* processingProgress this call has stored (0 before its first save) and
\* events the events it has emitted.
NewRun(videoId) ==
    [videoId |-> videoId,
     pc      |-> "findById",
     video   |-> Document(NewVideo),
     thumbnail |-> "unset",
     error   |-> NoError,
     written |-> 0,
     events  |-> << >>]

\* emitVideoProgress(videoId, data): io is set at server start, so the event
\* goes out on the room video:<videoId>; events records what a run emitted.
emitVideoProgress(events, data) ==
    Append(events,
           [name     |-> "video:processing:progress",
            status   |-> data.status,
            stage    |-> data.stage,
            progress |-> data.progress,
            error    |-> data.error,
            result   |-> data.result])

ProgressData(status, stage, progress) ==
    [status |-> status, stage |-> stage, progress |-> progress,
     error |-> FALSE, result |-> NoResult]

\* process() with the admission test off by one.
process_admitsOneMore(q, a, rs) ==
    IF a > concurrency \/ Len(q) = 0
    THEN << q, a, rs >>
    ELSE << Tail(q), a + 1, Append(rs, NewRun(Head(q))) >>

\* process() taking the newest id of the queue instead of the oldest.
process_newestFirst(q, a, rs) ==
    IF a >= concurrency \/ Len(q) = 0
    THEN << q, a, rs >>
    ELSE << SubSeq(q, 1, Len(q) - 1), a + 1, Append(rs, NewRun(q[Len(q)])) >>

\* ProcessingQueue.process(), up to its await: returns the new
\* << queue, activeJobs, runs >>.
process(q, a, rs) ==
    IF a >= concurrency \/ Len(q) = 0
    THEN << q, a, rs >>
    ELSE << Tail(q), a + 1, Append(rs, NewRun(Head(q))) >>

\* The count of the calls of processVideo after process() has turned the
\* frames rs into the frames after: a frame more is a call more.
Called(rs, after) ==
    IF Len(after) > Len(rs)
    THEN [started EXCEPT ![after[Len(after)].videoId] = @ + 1]
    ELSE started

\* add() that merges a submission with one of the same id that waits in the
\* queue or is being processed.
add_mergesDuplicate(videoId) ==
    LET waits == \/ \E k \in 1..Len(queue) : queue[k] = videoId
                 \/ \E r \in 1..Len(runs) : runs[r].videoId = videoId
        p     == process(IF waits THEN queue ELSE Append(queue, videoId),
                         activeJobs, runs)
    IN  /\ queue' = p[1]
        /\ activeJobs' = p[2]
        /\ runs' = p[3]
        /\ started' = Called(runs, p[3])
        /\ adds' = [adds EXCEPT ![videoId] = @ + 1]

\* add() without its call of process().
add_withoutProcess(videoId) ==
    /\ queue' = Append(queue, videoId)
    /\ adds' = [adds EXCEPT ![videoId] = @ + 1]
    /\ UNCHANGED << activeJobs, runs, started >>

\* ProcessingQueue.add(videoId)
add(videoId) ==
    LET p == process(Append(queue, videoId), activeJobs, runs)
    IN  /\ queue' = p[1]
        /\ activeJobs' = p[2]
        /\ runs' = p[3]
        /\ started' = Called(runs, p[3])
        /\ adds' = [adds EXCEPT ![videoId] = @ + 1]

\* ---------------------------------------------------------- socket server
\* `video:${videoId}` and `user:${userId}`
VideoRoom(videoId) == "video:" \o videoId

\* subscribe:user joining a room named like a video's.
UserRoom_sharesPrefix(userId) == "video:" \o userId

UserRoom(userId) == "user:" \o userId

\* The message a connection sent last, or the last call made on the module.
\* again: the message asked for what the connection already had.
NoMessage ==
    [type |-> "none", connection |-> "none", id |-> "none", again |-> FALSE]

\* The module after loading: `let io` is undefined.  rooms[c] are the rooms
\* socket c has joined and inbox[c] what c has been sent.  asked[c] are the
\* video ids c has subscribed to and not unsubscribed from since, calls the
\* number of calls of emitVideoProgress, last the latest message or call.
ModuleLoaded ==
    [io        |-> FALSE,
     connected |-> {},
     rooms     |-> [c \in Connections |-> {}],
     inbox     |-> [c \in Connections |-> << >>],
     asked     |-> [c \in Connections |-> {}],
     calls     |-> 0,
     last      |-> NoMessage]

\* The module after server.js has called initializeSocket(httpServer).
Listening == [ModuleLoaded EXCEPT !.io = TRUE]

\* ----------------------------------------------------------- stream route
\* A text is the sequence of its characters.
BytesEq == << "b", "y", "t", "e", "s", "=" >>

DigitValue ==
    [c \in {"0", "1", "2", "3", "4", "5", "6", "7", "8", "9"} |->
        CASE c = "0" -> 0 [] c = "1" -> 1 [] c = "2" -> 2 [] c = "3" -> 3
          [] c = "4" -> 4 [] c = "5" -> 5 [] c = "6" -> 6 [] c = "7" -> 7
          [] c = "8" -> 8 [] c = "9" -> 9]

\* A JavaScript number that is an integer, or NaN.
Num(n) == [nan |-> FALSE, val |-> n]

NaN == [nan |-> TRUE, val |-> 0]

\* The value of the longest prefix of digits of s, after acc digits read.
RECURSIVE ReadDigits(_, _, _)
ReadDigits(s, acc, any) ==
    IF Len(s) > 0 /\ Head(s) \in DOMAIN DigitValue
    THEN ReadDigits(Tail(s), 10 * acc + DigitValue[Head(s)], TRUE)
    ELSE IF any THEN Num(acc) ELSE NaN

\* parseInt(s, 10): leading blanks are skipped, a sign is read, then the
\* digits up to the first other character; NaN when there is no digit.
RECURSIVE parseInt(_)
parseInt(s) ==
    IF Len(s) > 0 /\ Head(s) = " " THEN parseInt(Tail(s))
    ELSE IF Len(s) > 0 /\ Head(s) = "+" THEN ReadDigits(Tail(s), 0, FALSE)
    ELSE IF Len(s) > 0 /\ Head(s) = "-"
    THEN LET n == ReadDigits(Tail(s), 0, FALSE)
         IN  IF n.nan THEN NaN ELSE Num(0 - n.val)
    ELSE ReadDigits(s, 0, FALSE)

\* s starts with the text w.
StartsWith(s, w) == Len(s) >= Len(w) /\ SubSeq(s, 1, Len(w)) = w

\* range.replace(/bytes=/, ''): the first occurrence is taken out.
RECURSIVE ReplaceBytesEq(_)
ReplaceBytesEq(s) ==
    IF Len(s) = 0 THEN s
    ELSE IF StartsWith(s, BytesEq) THEN SubSeq(s, Len(BytesEq) + 1, Len(s))
    ELSE << Head(s) >> \o ReplaceBytesEq(Tail(s))

\* s.split('-'): the texts between the dashes.
RECURSIVE Split(_)
Split(s) ==
    IF \A k \in 1..Len(s) : s[k] # "-" THEN << s >>
    ELSE LET k == CHOOSE j \in 1..Len(s) :
                     s[j] = "-" /\ \A h \in 1..(j - 1) : s[h] # "-"
         IN  << SubSeq(s, 1, k - 1) >> \o Split(SubSeq(s, k + 1, Len(s)))

\* `${n}`
Show(n) == IF n.nan THEN "NaN" ELSE ToString(n.val)

\* No request has been made, no item chosen.
NoResponse ==
    [status |-> 0, contentRange |-> "none", contentLength |-> NaN,
     first |-> NaN, last |-> NaN, sent |-> 0]

NoStream ==
    [video    |-> [found |-> FALSE, access |-> FALSE, status |-> "pending",
                   views |-> 0],
     file     |-> [found |-> FALSE, size |-> 0],
     requests |-> 0,
     initial  |-> 0,
     range    |-> << >>,
     response |-> NoResponse]

Start ==
    /\ exists = [i \in VideoIds |-> "none"]
    /\ videos = [i \in VideoIds |-> NewVideo]
    /\ queue = << >>
    /\ activeJobs = 0
    /\ runs = << >>
    /\ reprocess = [i \in VideoIds |-> Idle]
    /\ adds = [i \in VideoIds |-> 0]
    /\ started = [i \in VideoIds |-> 0]
    /\ retried = [i \in VideoIds |-> FALSE]
    /\ storeUp = TRUE
    /\ faults = 0

Init ==
    /\ Start
    /\ limits = [adds |-> MaxAdds, faults |-> MaxFaults]
    /\ sockets = Listening
    /\ stream = NoStream

\* The start of the behaviours in which no collaborator fails (a run still
\* fails when its record is deleted under it).
InitFaultFree ==
    /\ Start
    /\ limits = [adds |-> MaxAddsFaultFree, faults |-> 0]
    /\ sockets = Listening
    /\ stream = NoStream

\* ----------------------------------------------------------------- routes
\* Ids are handed out in order: v1 is the first upload.
Older(j, i) == j = "v1" /\ i = "v2"

\* POST /api/videos/upload: new Video(...).save(), then processingQueue.add.
Upload(i) ==
    /\ storeUp
    /\ exists[i] = "none"
    /\ \A j \in VideoIds : Older(j, i) => exists[j] # "none"
    /\ TotalAdds + InFlight < limits.adds
    /\ exists' = [exists EXCEPT ![i] = "stored"]
    /\ videos' = [videos EXCEPT ![i] = NewVideo]
    /\ add(i)
    /\ UNCHANGED << reprocess, retried, storeUp, faults, limits, sockets,
                    stream >>

\* The paths the reprocess route assigns.
ReprocessPaths ==
    {"status", "processingProgress", "processingStage", "processingError"}

\* The four assignments of the reprocess route.
ResetProcessing(video) ==
    Assign(Assign(Assign(Assign(video,
        "status", "pending"),
        "processingProgress", 0),
        "processingStage", "queued"),
        "processingError", NoError)

\* POST /api/videos/:id/reprocess, up to `await video.save()`: the record
\* was found (a missing one is answered 404), the owner check passed and the
\* four assignments are made.  There is no check of video.status.
ReprocessLoad(i) ==
    /\ storeUp
    /\ exists[i] = "stored"
    /\ ~reprocess[i].active
    /\ TotalAdds + InFlight < limits.adds
    /\ reprocess' = [reprocess EXCEPT ![i] =
          [active |-> TRUE,
           found  |-> videos[i].status,
           video  |-> ResetProcessing(Load(videos[i], ReprocessPaths))]]
    /\ UNCHANGED << exists, videos, queue, activeJobs, runs, adds, started,
                    retried, storeUp, faults, limits, sockets, stream >>

\* POST /api/videos/:id/reprocess, from `await video.save()` on: the save,
\* then processingQueue.add.  A save that throws is answered 500.
ReprocessSave(i) ==
    /\ reprocess[i].active
    /\ reprocess' = [reprocess EXCEPT ![i] = Idle]
    /\ IF storeUp /\ exists[i] = "stored"
       THEN /\ videos' = [videos EXCEPT ![i] = Save(@, reprocess[i].video)]
            /\ add(i)
            /\ retried' = [retried EXCEPT ![i] = (reprocess[i].found = "failed")]
       ELSE UNCHANGED << videos, queue, activeJobs, runs, adds, started,
                         retried >>
    /\ UNCHANGED << exists, storeUp, faults, limits, sockets, stream >>

\* DELETE /api/videos/:id: Video.findByIdAndDelete.  The record is gone;
\* videos[i] is meaningless from then on and is kept at a fixed value.
Delete(i) ==
    /\ storeUp
    /\ exists[i] = "stored"
    /\ exists' = [exists EXCEPT ![i] = "deleted"]
    /\ videos' = [videos EXCEPT ![i] = NewVideo]
    /\ UNCHANGED << queue, activeJobs, runs, reprocess, adds, started,
                    retried, storeUp, faults, limits, sockets, stream >>

\* ------------------------------------------------------------ environment
\* The record store becomes unreachable: every store operation throws until
\* it is back.
StoreDown ==
    /\ storeUp
    /\ faults < limits.faults
    /\ storeUp' = FALSE
    /\ faults' = faults + 1
    /\ UNCHANGED << exists, videos, queue, activeJobs, runs, reprocess, adds,
                    started, retried, limits, sockets, stream >>

StoreBack ==
    /\ ~storeUp
    /\ storeUp' = TRUE
    /\ UNCHANGED << exists, videos, queue, activeJobs, runs, reprocess, adds,
                    started, retried, faults, limits, sockets, stream >>

\* ----------------------------------------------------------- processVideo
\* An exception inside the try block: control enters the catch block, which
\* runs up to `await Video.findByIdAndUpdate`.  The catch block does not use
\* the document, so the frame no longer holds it.
Throw(run, message) ==
    [run EXCEPT !.pc = "catch", !.error = message,
                !.video = Document(NewVideo)]

\* The paths processVideo assigns with a value that can equal the loaded
\* one (sensitivityResult is always assigned a fresh object).
ProcessPaths ==
    {"status", "processingProgress", "processingStage",
     "duration", "width", "height", "thumbnailPath"}

\* The three assignments after findById.
StartProcessing(video) ==
    Assign(Assign(Assign(video,
        "status", "processing"),
        "processingStage", "extracting_metadata"),
        "processingProgress", 10)

\* `await Video.findById(videoId)` resumes; on a document the three
\* assignments follow and the first save is issued.
FindByIdDone(r) ==
    /\ runs[r].pc = "findById"
    /\ LET id == runs[r].videoId IN
       runs' = [runs EXCEPT ![r] =
          IF ~storeUp THEN Throw(@, ErrStore)
          ELSE IF exists[id] # "stored" THEN Throw(@, ErrNotFound)
          ELSE [@ EXCEPT !.pc = "save1",
                         !.video = StartProcessing(Load(videos[id], ProcessPaths))]]
    /\ UNCHANGED << exists, videos, queue, activeJobs, reprocess, adds,
                    started, retried, storeUp, faults, limits, sockets,
                    stream >>

\* The progress event processVideo emits after the save of a stage.
StageEvent(doc) ==
    ProgressData(doc.values.status, doc.values.processingStage,
                 doc.values.processingProgress)

\* `await video.save()` resumes.  On success the modified paths are stored,
\* the stage's progress event is emitted and the run moves on to nextPc with
\* the document that carries the assignments preceding its next await
\* (next).  A save that throws, or that finds no document, enters the catch
\* block.
SaveDone(r, pc, nextPc, data, next) ==
    /\ runs[r].pc = pc
    /\ LET id  == runs[r].videoId
           run == runs[r]
       IN  IF storeUp /\ exists[id] = "stored"
           THEN /\ videos' = [videos EXCEPT ![id] = Save(@, run.video)]
                /\ runs' = [runs EXCEPT ![r] =
                      [run EXCEPT
                         !.pc = nextPc,
                         !.video = next,
                         !.written = IF "processingProgress" \in run.video.modified
                                     THEN run.video.values.processingProgress
                                     ELSE @,
                         !.events = emitVideoProgress(@, data)]]
           ELSE /\ runs' = [runs EXCEPT ![r] =
                      Throw(@, IF storeUp THEN ErrNoDocument ELSE ErrStore)]
                /\ UNCHANGED videos
    /\ UNCHANGED << exists, queue, activeJobs, reprocess, adds, started,
                    retried, storeUp, faults, limits, sockets, stream >>

\* save of (processing, extracting_metadata, 10); ffprobe is spawned.
Save1Done(r) ==
    SaveDone(r, "save1", "extractMetadata",
             StageEvent(runs[r].video), Saved(runs[r].video))

\* Step 1 of processVideo: the assignments after extractMetadata.
MergeMetadata(video, metadata) ==
    Assign(Assign(Assign(Assign(Assign(video,
        "duration", metadata.duration),
        "width", metadata.width),
        "height", metadata.height),
        "processingProgress", 30),
        "processingStage", "generating_thumbnail")

\* `await extractMetadata(video.filePath)` resumes; the metadata is merged
\* and the second save is issued.
MetadataDone(r) ==
    /\ runs[r].pc = "extractMetadata"
    /\ \E ok \in Outcomes :
          /\ Outcome(ok)
          /\ runs' = [runs EXCEPT ![r] =
                [@ EXCEPT !.pc = "save2",
                          !.video = MergeMetadata(@, extractMetadata(ok))]]
    /\ UNCHANGED << exists, videos, queue, activeJobs, reprocess, adds,
                    started, retried, storeUp, limits, sockets, stream >>

\* save of (generating_thumbnail, 30); ffmpeg is spawned.
Save2Done(r) ==
    SaveDone(r, "save2", "generateThumbnail",
             StageEvent(runs[r].video), Saved(runs[r].video))

\* Step 2 of processVideo: the assignments after generateThumbnail;
\* thumbnailPath is assigned only when the result is truthy.
MergeThumbnail(video, thumbnail, thumbnailPath) ==
    Assign(Assign(
        IF thumbnail # NoThumbnail
        THEN Assign(video, "thumbnailPath", thumbnailPath)
        ELSE video,
        "processingProgress", 50),
        "processingStage", "analyzing_content")

\* `await generateThumbnail(...)` resumes; the result is merged and the
\* third save is issued.
ThumbnailDone(r) ==
    /\ runs[r].pc = "generateThumbnail"
    /\ \E ok \in Outcomes :
          LET thumbnailPath == ThumbnailFile(runs[r].videoId)
              thumbnail == generateThumbnail(thumbnailPath, ok)
          IN
          /\ Outcome(ok)
          /\ runs' = [runs EXCEPT ![r] =
                [@ EXCEPT !.pc = "save3",
                          !.thumbnail = thumbnail,
                          !.video = MergeThumbnail(@, thumbnail, thumbnailPath)]]
    /\ UNCHANGED << exists, videos, queue, activeJobs, reprocess, adds,
                    started, retried, storeUp, limits, sockets, stream >>

\* save of (analyzing_content, 50); the analyzer module is imported.
Save3Done(r) ==
    SaveDone(r, "save3", "import",
             StageEvent(runs[r].video), Saved(runs[r].video))

\* `await import('./sensitivityAnalyzer.js')` resumes; analyzeSensitivity is
\* called and suspends at its first delay.  A failed import throws.
ImportDone(r) ==
    /\ runs[r].pc = "import"
    /\ \E ok \in Outcomes :
          /\ Outcome(ok)
          /\ runs' = [runs EXCEPT ![r] =
                IF ok THEN [@ EXCEPT !.pc = "analyze1"] ELSE Throw(@, ErrImport)]
    /\ UNCHANGED << exists, videos, queue, activeJobs, reprocess, adds,
                    started, retried, storeUp, limits, sockets, stream >>

\* The progress values of the four events analyzeSensitivity emits.
AnalyzerProgress == << 55, 65, 75, 85 >>

AnalyzerPc == << "analyze1", "analyze2", "analyze3", "analyze4" >>

\* Step 3 of processVideo, after `await analyzeSensitivity(...)`: the result
\* is merged and the fourth save is issued.
MergeAnalysis(run, sensitivityResult) ==
    [run EXCEPT
       !.pc = "save4",
       !.video = Assign(Assign(AssignResult(@, sensitivityResult),
                     "processingProgress", 90),
                     "processingStage", "finalizing")]

\* generateMockAnalysis: safe when Math.random() > 0.15, flagged otherwise.
\* The random confidence (85..99 when safe, 60..89 when flagged) and the
\* random one or two flag categories are each given by one value.
generateMockAnalysis ==
    { [classification |-> "safe", confidence |-> 85, flags |-> {},
       details |-> "mock"],
      [classification |-> "flagged", confidence |-> 60, flags |-> {"violence"},
       details |-> "mock"] }

\* The message of an error raised inside analyzeSensitivity.
ErrAnalysis == "analysis failed"

\* The value the catch block of analyzeSensitivity returns.
AnalysisError(message) ==
    [classification |-> "pending", confidence |-> 0, flags |-> {},
     details |-> message]

\* analyzeSensitivity: one of its delays resumes and the next event is
\* emitted; after the fourth, the mock result is returned to processVideo.
AnalyzeStep(r, k) ==
    /\ runs[r].pc = AnalyzerPc[k]
    /\ LET emitted == [runs[r] EXCEPT !.events =
              emitVideoProgress(@, ProgressData("processing", "analyzing_content",
                                                AnalyzerProgress[k]))]
       IN  IF k < Len(AnalyzerPc)
           THEN runs' = [runs EXCEPT ![r] = [emitted EXCEPT !.pc = AnalyzerPc[k + 1]]]
           ELSE \E result \in generateMockAnalysis :
                   runs' = [runs EXCEPT ![r] = MergeAnalysis(emitted, result)]
    /\ UNCHANGED << exists, videos, queue, activeJobs, reprocess, adds,
                    started, retried, storeUp, faults, limits, sockets,
                    stream >>

\* analyzeSensitivity letting the error out to processVideo.
AnalyzeRaise_throws(r) ==
    /\ runs[r].pc \in { AnalyzerPc[k] : k \in 1..Len(AnalyzerPc) }
    /\ faults < limits.faults
    /\ faults' = faults + 1
    /\ runs' = [runs EXCEPT ![r] = Throw(@, ErrAnalysis)]
    /\ UNCHANGED << exists, videos, queue, activeJobs, reprocess, adds,
                    started, retried, storeUp, limits, sockets, stream >>

\* analyzeSensitivity: an error raised inside its try block is caught and a
\* pending result is returned.
AnalyzeRaise(r) ==
    /\ runs[r].pc \in { AnalyzerPc[k] : k \in 1..Len(AnalyzerPc) }
    /\ faults < limits.faults
    /\ faults' = faults + 1
    /\ runs' = [runs EXCEPT ![r] = MergeAnalysis(@, AnalysisError(ErrAnalysis))]
    /\ UNCHANGED << exists, videos, queue, activeJobs, reprocess, adds,
                    started, retried, storeUp, limits, sockets, stream >>

\* Step 4 of processVideo: the three assignments before the last save.
Finalize(doc) ==
    Assign(Assign(Assign(doc,
        "status", "completed"),
        "processingProgress", 100),
        "processingStage", "done")

\* save of (finalizing, 90).
Save4Done(r) ==
    SaveDone(r, "save4", "save5",
             StageEvent(runs[r].video), Finalize(Saved(runs[r].video)))

\* The last event of a successful run; it carries the sensitivityResult.
DoneEvent(doc) ==
    [StageEvent(doc) EXCEPT !.result = doc.values.sensitivityResult]

\* save of (completed, done, 100); processVideo returns.
Save5Done(r) ==
    SaveDone(r, "save5", "returned",
             DoneEvent(runs[r].video), Saved(runs[r].video))

\* The catch block's update, had it also reset the progress to the value its
\* event carries.
MarkFailed_resetsProgress(stored, message) ==
    [stored EXCEPT !.status = "failed",
                   !.processingError = message,
                   !.processingStage = "error",
                   !.processingProgress = 0]

\* Video.findByIdAndUpdate(videoId, {status, processingError,
\* processingStage}) of the catch block.
MarkFailed(stored, message) ==
    [stored EXCEPT !.status = "failed",
                   !.processingError = message,
                   !.processingStage = "error"]

\* The event of the catch block.
ErrorEvent ==
    [status |-> "failed", stage |-> "error", progress |-> 0,
     error |-> TRUE, result |-> NoResult]

\* `await Video.findByIdAndUpdate(...)` of the catch block resumes: the
\* update changes the record when there is one, the event is emitted and
\* processVideo returns.  An update that throws is logged: no event.
CatchDone(r) ==
    /\ runs[r].pc = "catch"
    /\ LET id == runs[r].videoId IN
       IF storeUp
       THEN /\ videos' = [videos EXCEPT ![id] =
                  IF exists[id] = "stored" THEN MarkFailed(@, runs[r].error) ELSE @]
            /\ runs' = [runs EXCEPT ![r] =
                  [@ EXCEPT !.pc = "returned",
                            !.events = emitVideoProgress(@, ErrorEvent)]]
       ELSE /\ runs' = [runs EXCEPT ![r] = [@ EXCEPT !.pc = "returned"]]
            /\ UNCHANGED videos
    /\ UNCHANGED << exists, queue, activeJobs, reprocess, adds, started,
                    retried, storeUp, faults, limits, sockets, stream >>

\* runs without the frame of a call that has returned and whose finally
\* block has run.
Drop(rs, r) ==
    [k \in 1..(Len(rs) - 1) |-> IF k < r THEN rs[k] ELSE rs[k + 1]]

\* The finally block without its call of process().
Finally_admitsNothing(r) ==
    /\ runs[r].pc = "returned"
    /\ activeJobs' = activeJobs - 1
    /\ runs' = Drop(runs, r)
    /\ UNCHANGED << exists, videos, queue, reprocess, adds, started, retried,
                    storeUp, faults, limits, sockets, stream >>

\* ProcessingQueue.process() after `await processVideo(videoId)`: the
\* finally block.
Finally(r) ==
    /\ runs[r].pc = "returned"
    /\ LET p == process(queue, activeJobs - 1, Drop(runs, r))
       IN  /\ queue' = p[1]
           /\ activeJobs' = p[2]
           /\ runs' = p[3]
           /\ started' = Called(Drop(runs, r), p[3])
    /\ UNCHANGED << exists, videos, reprocess, adds, retried, storeUp,
                    faults, limits, sockets, stream >>

\* The start of the behaviours checked for progress.
InitLive ==
    /\ Start
    /\ limits = [adds |-> MaxAddsLive, faults |-> 0]
    /\ sockets = Listening
    /\ stream = NoStream

NextFaultFree ==
    \/ \E i \in VideoIds : Upload(i)
    \/ \E i \in VideoIds : ReprocessLoad(i)
    \/ \E i \in VideoIds : ReprocessSave(i)
    \/ \E i \in VideoIds : Delete(i)
    \/ \E r \in RunIds : FindByIdDone(r)
    \/ \E r \in RunIds : Save1Done(r)
    \/ \E r \in RunIds : MetadataDone(r)
    \/ \E r \in RunIds : Save2Done(r)
    \/ \E r \in RunIds : ThumbnailDone(r)
    \/ \E r \in RunIds : Save3Done(r)
    \/ \E r \in RunIds : ImportDone(r)
    \/ \E r \in RunIds : \E k \in 1..Len(AnalyzerPc) : AnalyzeStep(r, k)
    \/ \E r \in RunIds : Save4Done(r)
    \/ \E r \in RunIds : Save5Done(r)
    \/ \E r \in RunIds : CatchDone(r)
    \/ \E r \in RunIds : Finally(r)

Next ==
    \/ NextFaultFree
    \/ StoreDown
    \/ StoreBack
    \/ \E r \in RunIds : AnalyzeRaise(r)

Spec == Init /\ [][Next]_vars

SpecFaultFree == InitFaultFree /\ [][NextFaultFree]_vars

\* The continuation of the frame at position r that is ready to run: the
\* next step of processVideo, or the finally block of process().
Resume(r) ==
    /\ r \in RunIds
    /\ \/ FindByIdDone(r)
       \/ Save1Done(r)
       \/ MetadataDone(r)
       \/ Save2Done(r)
       \/ ThumbnailDone(r)
       \/ Save3Done(r)
       \/ ImportDone(r)
       \/ \E k \in 1..Len(AnalyzerPc) : AnalyzeStep(r, k)
       \/ Save4Done(r)
       \/ Save5Done(r)
       \/ CatchDone(r)
       \/ Finally(r)

\* Every store call, subprocess and timer a run awaits completes, and the
\* event loop runs every continuation that is ready.
EveryRunFinishes == \A r \in 1..concurrency : WF_vars(Resume(r))

SpecLive == InitLive /\ [][NextFaultFree]_vars /\ EveryRunFinishes

\* ---------------------------------------------------------- socket server
\* The state of the processing pipeline and of its routes.
processing ==
    << exists, videos, queue, activeJobs, runs, reprocess, adds, started,
       retried, storeUp, faults, limits >>

\* What the socket server does not touch.
others == << processing, stream >>

Message(type, c, id, again) ==
    [type |-> type, connection |-> c, id |-> id, again |-> again]

\* initializeSocket(server): io = new Server(...), handlers registered.
InitializeSocket ==
    /\ ~sockets.io
    /\ sockets' = [sockets EXCEPT
          !.io = TRUE,
          !.last = Message("initialize", "none", "none", FALSE)]
    /\ UNCHANGED others

\* io.on('connection'): a client connects; socket.io puts the socket in the
\* room named by its own id.
Connect(c) ==
    /\ sockets.io
    /\ c \notin sockets.connected
    /\ sockets' = [sockets EXCEPT
          !.connected = @ \cup {c},
          !.rooms[c] = {c},
          !.inbox[c] = << >>,
          !.asked[c] = {},
          !.last = Message("connection", c, "none", FALSE)]
    /\ UNCHANGED others

\* socket.on('subscribe:video'): socket.join(`video:${videoId}`)
SubscribeVideo(c, videoId) ==
    /\ c \in sockets.connected
    /\ sockets' = [sockets EXCEPT
          !.rooms[c] = @ \cup {VideoRoom(videoId)},
          !.asked[c] = @ \cup {videoId},
          !.last = Message("subscribe:video", c, videoId,
                          videoId \in sockets.asked[c])]
    /\ UNCHANGED others

\* unsubscribe:video leaving the room when joined and joining it when not.
UnsubscribeVideo_toggles(c, videoId) ==
    /\ c \in sockets.connected
    /\ sockets' = [sockets EXCEPT
          !.rooms[c] = IF VideoRoom(videoId) \in @
                       THEN @ \ {VideoRoom(videoId)}
                       ELSE @ \cup {VideoRoom(videoId)},
          !.asked[c] = @ \ {videoId},
          !.last = Message("unsubscribe:video", c, videoId,
                            videoId \notin sockets.asked[c])]
    /\ UNCHANGED others

\* socket.on('unsubscribe:video'): socket.leave(`video:${videoId}`)
UnsubscribeVideo(c, videoId) ==
    /\ c \in sockets.connected
    /\ sockets' = [sockets EXCEPT
          !.rooms[c] = @ \ {VideoRoom(videoId)},
          !.asked[c] = @ \ {videoId},
          !.last = Message("unsubscribe:video", c, videoId,
                          videoId \notin sockets.asked[c])]
    /\ UNCHANGED others

\* socket.on('subscribe:user'): socket.join(`user:${userId}`)
SubscribeUser(c, userId) ==
    /\ c \in sockets.connected
    /\ sockets' = [sockets EXCEPT
          !.rooms[c] = @ \cup {UserRoom(userId)},
          !.last = Message("subscribe:user", c, userId, FALSE)]
    /\ UNCHANGED others

\* socket.on('disconnect'): socket.io takes the socket out of every room.
Disconnect(c) ==
    /\ c \in sockets.connected
    /\ sockets' = [sockets EXCEPT
          !.connected = @ \ {c},
          !.rooms[c] = {},
          !.asked[c] = {},
          !.last = Message("disconnect", c, "none", FALSE)]
    /\ UNCHANGED others

\* io.to(room).emit(...): the event is sent to every socket in the room.
RoomEmit(s, room, event) ==
    [s EXCEPT !.inbox = [c \in Connections |->
        IF c \in s.connected /\ room \in s.rooms[c]
        THEN Append(s.inbox[c], event)
        ELSE s.inbox[c]]]

\* The payload of the event: { videoId, ...data } under the event's name.
VideoEvent(videoId, data) ==
    [videoId |-> videoId, event |-> emitVideoProgress(<< >>, data)[1]]

\* The payloads published in the behaviours of the socket server: the first
\* event of a run and the event of its catch block.
PublishData ==
    { ProgressData("processing", "extracting_metadata", 10), ErrorEvent }

\* A call of emitVideoProgress(videoId, data): nothing when io is unset.
Publish(videoId, data) ==
    /\ sockets.calls < MaxPublish
    /\ sockets' =
          [(IF sockets.io
            THEN RoomEmit(sockets, VideoRoom(videoId),
                          VideoEvent(videoId, data))
            ELSE sockets)
           EXCEPT !.calls = @ + 1,
                  !.last = Message("emitVideoProgress", "none", videoId, FALSE)]
    /\ UNCHANGED others

InitSockets ==
    /\ Start
    /\ limits = [adds |-> 0, faults |-> 0]
    /\ sockets = ModuleLoaded
    /\ stream = NoStream

NextSockets ==
    \/ InitializeSocket
    \/ \E c \in Connections : Connect(c)
    \/ \E c \in Connections : \E i \in VideoIds : SubscribeVideo(c, i)
    \/ \E c \in Connections : \E i \in VideoIds : UnsubscribeVideo(c, i)
    \/ \E c \in Connections : \E u \in UserIds : SubscribeUser(c, u)
    \/ \E c \in Connections : Disconnect(c)
    \/ \E i \in VideoIds : \E data \in PublishData : Publish(i, data)

SpecSockets == InitSockets /\ [][NextSockets]_vars

\* ----------------------------------------------------------- stream route
\* a > b in the place of a >= b.
AtLeast_strict(a, b) == ~a.nan /\ ~b.nan /\ a.val > b.val

\* a >= b, a - b and a + b on JavaScript numbers.
AtLeast(a, b) == ~a.nan /\ ~b.nan /\ a.val >= b.val

Minus(a, b) == IF a.nan \/ b.nan THEN NaN ELSE Num(a.val - b.val)

Plus(a, b) == IF a.nan \/ b.nan THEN NaN ELSE Num(a.val + b.val)

\* res.status(code).json(...) and res.status(416).send(...): no header of
\* a range, no byte of the file.
Answer(code) == [NoResponse EXCEPT !.status = code]

\* fs.createReadStream(videoPath, { start, end }) throws when start or end
\* is not a non-negative integer or when start > end.
ReadStreamThrows(start, end) ==
    \/ start.nan \/ start.val < 0
    \/ end.nan \/ end.val < 0
    \/ start.val > end.val

\* The number of bytes the stream reads from a file of fileSize bytes: from
\* start to end, or to the end of the file when that comes first.
BytesRead(start, end, fileSize) ==
    LET last == IF end.val < fileSize - 1 THEN end.val ELSE fileSize - 1
    IN  IF last < start.val THEN 0 ELSE last - start.val + 1

\* The length without the byte at end.
chunksize_withoutLast(start, end) == Minus(end, start)

\* const chunksize = (end - start) + 1
chunksize(start, end) == Plus(Minus(end, start), Num(1))

\* The branch `if (range)` of the route.
RangeResponse(range, fileSize) ==
    LET parts     == Split(ReplaceBytesEq(range))
        start     == parseInt(parts[1])
        end       == IF Len(parts) >= 2 /\ parts[2] # << >>
                     THEN parseInt(parts[2])
                     ELSE Num(fileSize - 1)
    IN  IF AtLeast(start, Num(fileSize)) THEN Answer(416)
        ELSE IF ReadStreamThrows(start, end) THEN Answer(500)
        ELSE [status        |-> 206,
              contentRange  |-> "bytes " \o Show(start) \o "-" \o Show(end)
                                  \o "/" \o ToString(fileSize),
              contentLength |-> chunksize(start, end),
              first         |-> start,
              last          |-> end,
              sent          |-> BytesRead(start, end, fileSize)]

\* The whole file: writeHead(200, ...) and the file piped.
FullResponse(fileSize) ==
    [NoResponse EXCEPT !.status = 200,
                       !.contentLength = Num(fileSize),
                       !.sent = fileSize]

\* The range header 'bytes=0-'.
FromStart == BytesEq \o << "0", "-" >>

\* The view counted whatever the range header.
CountsView_everyRange(video, file, range) ==
    /\ video.found /\ video.access /\ video.status = "completed"
    /\ file.found

\* The view counted whatever the status of the item.
CountsView_anyStatus(video, file, range) ==
    /\ video.found /\ video.access
    /\ file.found
    /\ range = << >> \/ range = FromStart

\* Whether the route increments the view counter: it reaches line 54 and
\* there is no range header or it is 'bytes=0-'.
CountsView(video, file, range) ==
    /\ video.found /\ video.access /\ video.status = "completed"
    /\ file.found
    /\ range = << >> \/ range = FromStart

\* GET /api/stream/:id: the response.  An absent header and an empty one
\* are both falsy.
StreamResponse(video, file, range) ==
    IF ~video.found THEN Answer(404)
    ELSE IF ~video.access THEN Answer(403)
    ELSE IF video.status # "completed" THEN Answer(400)
    ELSE IF ~file.found THEN Answer(404)
    ELSE IF range # << >> THEN RangeResponse(range, file.size)
    ELSE FullResponse(file.size)

\* The decimal digits of a natural number.
RECURSIVE Digits(_)
Digits(n) ==
    LET digit == CHOOSE c \in DOMAIN DigitValue : DigitValue[c] = n % 10
    IN  IF n < 10 THEN << digit >> ELSE Append(Digits(n \div 10), digit)

\* The texts clients put before and after the dash of a range header.
OffsetTexts ==
    { Digits(n) : n \in Offsets } \cup { << >>, << "a", "b", "c" >> }

\* The range headers requested: none, and bytes=<text>-<text>.
RangeHeaders ==
    { << >> } \cup
    { BytesEq \o a \o << "-" >> \o b : a \in OffsetTexts, b \in OffsetTexts }

\* The headers of the request that begins a playback: no range header, and
\* 'bytes=0-'.
InitialHeaders == { << >>, BytesEq \o << "0", "-" >> }

\* GET /api/stream/:id with the given range header; stream.initial counts
\* the requests made so far with one of the InitialHeaders.
GetStream(range) ==
    /\ stream.requests < MaxRequests
    /\ stream' = [stream EXCEPT
          !.requests = @ + 1,
          !.initial = IF range \in InitialHeaders THEN @ + 1 ELSE @,
          !.range = range,
          !.response = StreamResponse(stream.video, stream.file, range),
          !.video.views = IF CountsView(stream.video, stream.file, range)
                          THEN @ + 1 ELSE @]
    /\ UNCHANGED << processing, sockets >>

\* Any item, accessible or not, in any status, with or without its file.
InitStream ==
    /\ Start
    /\ limits = [adds |-> 0, faults |-> 0]
    /\ sockets = Listening
    /\ \E found, access, onDisk \in BOOLEAN :
         \E status \in Statuses : \E size \in FileSizes :
            stream = [NoStream EXCEPT
               !.video = [found |-> found, access |-> access,
                          status |-> status, views |-> 0],
               !.file = [found |-> onDisk, size |-> size]]

NextStream == \E range \in RangeHeaders : GetStream(range)

SpecStream == InitStream /\ [][NextStream]_vars

\* ------------------------------------------------------------ properties
Stored == { i \in VideoIds : exists[i] = "stored" }

\* Frame r takes a step of processVideo (the finally block is no such step:
\* it removes a frame).
RunStep(r) ==
    /\ Len(runs') = Len(runs)
    /\ runs[r].pc # "returned"
    /\ runs'[r] # runs[r]
    /\ \A k \in RunIds \ {r} : runs'[k] = runs[k]

\* The step is the save of the reprocess route on video i.
ReprocessStep(i) ==
    /\ reprocess[i].active
    /\ ~reprocess'[i].active
    /\ adds'[i] = adds[i] + 1

\* The calls of processVideo that have started and have not returned.
Executing == { r \in RunIds : runs[r].pc # "returned" }

\* C1: the number of processVideo executions that have started and not yet
\* finished never exceeds the concurrency limit, whatever the order of add()
\* calls and completions.
C1_ConcurrencyBound ==
    /\ Cardinality(Executing) <= concurrency
    /\ Len(runs) <= concurrency

\* Both workers are busy and a submission waits in the queue.
C1_Witness ==
    /\ Cardinality(Executing) = concurrency
    /\ Len(queue) > 0

\* The stage after s in the forward sequence; done and error have none.
NextStage(s) ==
    IF s \in {"done", "error"} THEN "none" ELSE StageOrder[StageIndex(s) + 1]

\* C2: the persisted stage of an item only ever changes to the next stage of
\* the sequence queued, extracting_metadata, generating_thumbnail,
\* analyzing_content, finalizing, done, or to error; the only other change
\* is the reset to queued made by the reprocess route.
C2_StageForwardOnly ==
    [][\A i \in VideoIds :
          (exists[i] = "stored" /\ exists'[i] = "stored") =>
             \/ videos'[i].processingStage = videos[i].processingStage
             \/ videos'[i].processingStage = NextStage(videos[i].processingStage)
             \/ videos'[i].processingStage = "error"
             \/ ReprocessStep(i) /\ videos'[i].processingStage = "queued"]_vars

\* C3: the persisted processingProgress is always an integer in 0..100, a
\* save of a run never stores a value below the one the same run stored
\* before, and the value returns to 0 only through the reprocess route.
C3_ProgressMonotone ==
    /\ [](\A i \in Stored : videos[i].processingProgress \in 0..100)
    /\ [][\A r \in RunIds :
             (RunStep(r) /\ runs'[r].written # runs[r].written) =>
                /\ runs'[r].written >= runs[r].written
                /\ videos'[runs[r].videoId].processingProgress = runs'[r].written]_vars
    /\ [][\A i \in VideoIds :
             (/\ exists[i] = "stored" /\ exists'[i] = "stored"
              /\ videos[i].processingProgress # 0
              /\ videos'[i].processingProgress = 0) => ReprocessStep(i)]_vars

\* A run started by a reprocess has stored every checkpoint up to 100.
C3_Witness ==
    \E r \in RunIds :
        /\ runs[r].pc = "returned"
        /\ runs[r].written = 100
        /\ adds[runs[r].videoId] >= 2
        /\ exists[runs[r].videoId] = "stored"
        /\ videos[runs[r].videoId].processingProgress = 100

\* C4: within one run the progress carried by the events it publishes never
\* decreases from one event to the next, the terminal event included.
C4_EventProgressMonotone ==
    \A r \in RunIds :
        \A k \in 1..(Len(runs[r].events) - 1) :
            runs[r].events[k].progress <= runs[r].events[k + 1].progress

\* C5: for every stored item, status = completed exactly when stage = done
\* and exactly when progress = 100.
C5_CompletedDoneHundred ==
    \A i \in Stored :
        /\ (videos[i].status = "completed") <=> (videos[i].processingStage = "done")
        /\ (videos[i].processingStage = "done") <=> (videos[i].processingProgress = 100)

\* C6: for every stored item, status = failed exactly when stage = error.
C6_FailedError ==
    \A i \in Stored :
        (videos[i].status = "failed") <=> (videos[i].processingStage = "error")

\* Frame r moves from pc `from` to pc `to`.
RunMoves(r, from, to) ==
    /\ RunStep(r)
    /\ runs[r].pc = from
    /\ runs'[r].pc = to

\* C7: when a run in which an exception was raised returns, its item has
\* status = failed, stage = error and processingError set to the message of
\* the exception.
C7_ExceptionMarksFailed ==
    [][\A r \in RunIds :
          (RunMoves(r, "catch", "returned") /\ exists'[runs[r].videoId] = "stored") =>
             /\ videos'[runs[r].videoId].status = "failed"
             /\ videos'[runs[r].videoId].processingStage = "error"
             /\ videos'[runs[r].videoId].processingError = runs[r].error]_vars

\* The events of a run that are published under the given event name.
EventsNamed(r, name) ==
    { k \in 1..Len(runs[r].events) : runs[r].events[k].name = name }

\* C8: a run that has returned has published exactly one terminal event: a
\* video:processing:complete event carrying the sensitivityResult when it
\* ended in done, a video:processing:error event when it ended in error.
C8_OneTerminalEvent ==
    \A r \in RunIds :
        runs[r].pc = "returned" =>
            IF runs[r].error = NoError
            THEN /\ Cardinality(EventsNamed(r, "video:processing:complete")) = 1
                 /\ Cardinality(EventsNamed(r, "video:processing:error")) = 0
                 /\ \A k \in EventsNamed(r, "video:processing:complete") :
                        runs[r].events[k].result # NoResult
            ELSE /\ Cardinality(EventsNamed(r, "video:processing:error")) = 1
                 /\ Cardinality(EventsNamed(r, "video:processing:complete")) = 0

\* The metadata a run merged is the fallback of a failed ffprobe.
MetadataFailed(r) ==
    /\ runs[r].video.values.duration = 0
    /\ runs[r].video.values.width = 0
    /\ runs[r].video.values.height = 0

\* C9: when a run whose metadata subprocess failed, and in which nothing
\* else failed, returns, its item is completed and has duration, width and
\* height 0.
C9_MetadataFallback ==
    [][\A r \in RunIds :
          (RunMoves(r, "save5", "returned") /\ MetadataFailed(r)) =>
             /\ videos'[runs[r].videoId].status = "completed"
             /\ videos'[runs[r].videoId].duration = 0
             /\ videos'[runs[r].videoId].width = 0
             /\ videos'[runs[r].videoId].height = 0]_vars

\* C10: when a run whose thumbnail subprocess failed has stored the stage
\* that follows, the item is at analyzing_content, is not failed and has no
\* thumbnailPath, on a first run and on a run started by reprocess.
C10_ThumbnailFallback ==
    [][\A r \in RunIds :
          (RunMoves(r, "save3", "import") /\ runs[r].thumbnail = NoThumbnail) =>
             /\ videos'[runs[r].videoId].processingStage = "analyzing_content"
             /\ videos'[runs[r].videoId].status # "failed"
             /\ videos'[runs[r].videoId].thumbnailPath = NoThumbnail]_vars

\* Frame r is inside analyzeSensitivity.
Analyzing(r) == runs[r].pc \in { AnalyzerPc[k] : k \in 1..Len(AnalyzerPc) }

\* C11: when content analysis raises an error (a step of analyzeSensitivity
\* that emits nothing), the run does not enter the catch block: it holds the
\* result (pending, confidence 0, no flags, the error message in details)
\* and goes on to save the finalizing stage; when that save is done the
\* stored item has that result and stage finalizing.
C11_AnalysisErrorResult ==
    [][\A r \in RunIds :
          /\ (RunStep(r) /\ Analyzing(r)
                 /\ Len(runs'[r].events) = Len(runs[r].events)) =>
                /\ runs'[r].pc = "save4"
                /\ runs'[r].error = NoError
                /\ runs'[r].video.values.sensitivityResult =
                      [classification |-> "pending", confidence |-> 0,
                       flags |-> {}, details |-> ErrAnalysis]
                /\ runs'[r].video.values.processingStage = "finalizing"
          /\ (RunMoves(r, "save4", "save5")
                 /\ runs[r].video.values.sensitivityResult.details = ErrAnalysis) =>
                /\ videos'[runs[r].videoId].sensitivityResult =
                      [classification |-> "pending", confidence |-> 0,
                       flags |-> {}, details |-> ErrAnalysis]
                /\ videos'[runs[r].videoId].processingStage = "finalizing"]_vars

\* A run whose analysis raised an error has stored the pending result and
\* the finalizing stage.
C11_Witness ==
    \E r \in RunIds :
        /\ runs[r].pc = "save5"
        /\ exists[runs[r].videoId] = "stored"
        /\ videos[runs[r].videoId].sensitivityResult.details = ErrAnalysis
        /\ videos[runs[r].videoId].sensitivityResult.classification = "pending"
        /\ videos[runs[r].videoId].processingStage = "finalizing"

\* The submissions of id i that wait in the queue or have been started.
Submitted(q, rs, i) ==
    Cardinality({ k \in 1..Len(q) : q[k] = i })
      + Cardinality({ k \in 1..Len(rs) : rs[k].videoId = i })

\* C12: when the reprocess route, having found the item completed or failed,
\* has saved it, the stored status, stage, progress and processingError are
\* pending, queued, 0 and null, every other field of the item and every
\* other record is as before, no record is created, and the id has been
\* submitted to the queue exactly once.
C12_ReprocessEffect ==
    [][\A i \in VideoIds :
          (ReprocessStep(i) /\ reprocess[i].found \in {"completed", "failed"}) =>
             /\ videos'[i] = [videos[i] EXCEPT !.status = "pending",
                     !.processingStage = "queued",
                     !.processingProgress = 0,
                     !.processingError = NoError]
             /\ \A j \in VideoIds \ {i} : videos'[j] = videos[j]
             /\ exists' = exists
             /\ adds'[i] = adds[i] + 1
             /\ Submitted(queue', runs', i) = Submitted(queue, runs, i) + 1
             /\ \A j \in VideoIds \ {i} :
                   Submitted(queue', runs', j) = Submitted(queue, runs, j)]_vars

\* The runs of id i that wait in the queue or have started and not returned.
QueuedOrActive(i) ==
    Cardinality({ k \in 1..Len(queue) : queue[k] = i })
      + Cardinality({ r \in Executing : runs[r].videoId = i })

\* C13: a reprocess request that found the item pending or processing ends
\* with the record unchanged and nothing added to the queue, and no item
\* ever has two runs queued or active at the same time.
C13_ReprocessRejected ==
    /\ [][\A i \in VideoIds :
             (/\ reprocess[i].active
              /\ reprocess[i].found \in {"pending", "processing"}
              /\ ~reprocess'[i].active) =>
                /\ videos'[i] = videos[i]
                /\ adds'[i] = adds[i]
                /\ queue' = queue
                /\ runs' = runs]_vars
    /\ [](\A i \in VideoIds : QueuedOrActive(i) <= 1)

\* The stages of a sequence of events, each maximal block of events of one
\* stage counted once.
RECURSIVE StagesSeen(_)
StagesSeen(events) ==
    IF Len(events) = 0 THEN << >>
    ELSE LET before == StagesSeen(SubSeq(events, 1, Len(events) - 1))
             stage  == events[Len(events)].stage
         IN  IF Len(before) > 0 /\ before[Len(before)] = stage
             THEN before
             ELSE Append(before, stage)

\* The full ordered sequence queued .. done, or a prefix of it followed by
\* error.
FullOrErrorSequence(stages) ==
    \/ stages = StageOrder
    \/ \E n \in 0..Len(StageOrder) :
          stages = Append(SubSeq(StageOrder, 1, n), "error")

\* Frame r is the run of the latest submission of its id.
LatestRun(r) ==
    /\ \A k \in 1..Len(queue) : queue[k] # runs[r].videoId
    /\ \A k \in RunIds : k > r => runs[k].videoId # runs[r].videoId

\* C14: when a reprocess request that found the item failed has saved it,
\* the stored progress is 0; and when the run of that submission returns
\* (it was admitted and its steps terminated), the events it has published,
\* which are all a subscriber of the item will ever receive from it, are the
\* full ordered sequence queued, extracting_metadata, generating_thumbnail,
\* analyzing_content, finalizing, done, or a prefix of it followed by error.
C14_ResubmitSequence ==
    /\ [][\A i \in VideoIds :
             (ReprocessStep(i) /\ reprocess[i].found = "failed") =>
                videos'[i].processingProgress = 0]_vars
    /\ [][\A r \in RunIds :
             (/\ RunStep(r)
              /\ runs'[r].pc = "returned"
              /\ retried[runs[r].videoId]
              /\ LatestRun(r)) =>
                FullOrErrorSequence(StagesSeen(runs'[r].events))]_vars

\* The ids of the submissions that have not finished: those of the frames,
\* in the order the runs started, then those of the queue.
Outstanding(q, rs) == [k \in 1..Len(rs) |-> rs[k].videoId] \o q

\* s without its k-th element.
Without(s, k) == SubSeq(s, 1, k - 1) \o SubSeq(s, k + 1, Len(s))

\* C15: runs start in the order of the add() calls.  The ids of the started
\* runs, in start order, followed by the queue are always the unfinished
\* submissions in the order of their add() calls: an add() puts its id at
\* the end, a completion takes the id of the finished run out, and no step
\* changes the order, so no id is started before one submitted earlier.
C15_FifoAdmission ==
    [][\/ \E i \in VideoIds :
             /\ adds' = [adds EXCEPT ![i] = @ + 1]
             /\ Outstanding(queue', runs') = Append(Outstanding(queue, runs), i)
       \/ /\ adds' = adds
          /\ \E r \in RunIds :
                /\ runs[r].pc = "returned"
                /\ Outstanding(queue', runs') =
                      Without(Outstanding(queue, runs), r)
       \/ /\ adds' = adds
          /\ Outstanding(queue', runs') = Outstanding(queue, runs)]_vars

\* Two different ids wait in the queue while both workers are busy, and a
\* run has returned: the next completion admits the older of the two.
C15_Witness ==
    /\ Len(queue) = 2
    /\ queue[1] # queue[2]
    /\ Len(runs) = concurrency
    /\ \E r \in RunIds : runs[r].pc = "returned"

InQueue(i) == \E k \in 1..Len(queue) : queue[k] = i

\* The step is a completion: a frame is gone, or an id has left the queue
\* (add() never leaves the queue shorter than it found it).
Completion == Len(runs') < Len(runs) \/ Len(queue') < Len(queue)

\* C16: if every started run finishes, an id that waits in the queue is
\* eventually dequeued and run; and each completion is that of a run that
\* has returned, whether it ended in success or in failure, decrements the
\* active count and admits the next queued id when there is one.
C16_EveryAddRuns ==
    /\ \A i \in VideoIds : InQueue(i) ~> ~InQueue(i)
    /\ [][Completion =>
             \E r \in RunIds :
                /\ runs[r].pc = "returned"
                /\ IF Len(queue) = 0
                   THEN /\ activeJobs' = activeJobs - 1
                        /\ queue' = queue
                        /\ runs' = Without(runs, r)
                   ELSE /\ activeJobs' = activeJobs
                        /\ queue' = Tail(queue)
                        /\ runs' = Append(Without(runs, r),
                                          NewRun(Head(queue)))]_vars

\* A run that ended in failure has returned while an id waits in the queue
\* behind two busy workers: its completion is the next step of its frame.
C16_Witness ==
    /\ Len(queue) > 0
    /\ Len(runs) = concurrency
    /\ \E r \in RunIds : runs[r].pc = "returned" /\ runs[r].error # NoError

\* The step is a call of emitVideoProgress.
PublishStep == sockets'.calls = sockets.calls + 1

\* C17: a call of emitVideoProgress for an item sends one event of that item
\* to each connection that is connected and subscribed to the item at that
\* moment, and nothing to any other connection; with no subscriber, or with
\* io not initialised, it sends nothing; in every case it changes nothing
\* else and the call returns.
C17_PublishToSubscribers ==
    [][PublishStep =>
          LET videoId == sockets'.last.id IN
          /\ sockets'.last.type = "emitVideoProgress"
          /\ \A c \in Connections :
                IF /\ sockets.io
                   /\ c \in sockets.connected
                   /\ videoId \in sockets.asked[c]
                THEN /\ Len(sockets'.inbox[c]) = Len(sockets.inbox[c]) + 1
                     /\ SubSeq(sockets'.inbox[c], 1, Len(sockets.inbox[c]))
                           = sockets.inbox[c]
                     /\ sockets'.inbox[c][Len(sockets'.inbox[c])].videoId
                           = videoId
                     /\ sockets'.inbox[c][Len(sockets'.inbox[c])].event.name
                           = "video:processing:progress"
                ELSE sockets'.inbox[c] = sockets.inbox[c]
          /\ sockets'.rooms = sockets.rooms
          /\ sockets'.connected = sockets.connected
          /\ sockets'.io = sockets.io]_vars

\* An event was sent to a subscriber of its item and not to a connection
\* that is subscribed to the other item and to a user room of the same id.
C17_Witness ==
    \E c, d \in sockets.connected :
        /\ sockets.last.type = "emitVideoProgress"
        /\ sockets.last.id \in sockets.asked[c]
        /\ Len(sockets.inbox[c]) = 1
        /\ sockets.asked[d] = VideoIds \ {sockets.last.id}
        /\ UserRoom(sockets.last.id) \in sockets.rooms[d]
        /\ sockets.inbox[d] = << >>

\* The step handles a message of the given type from c about item i.
Handles(type, c, i) ==
    /\ sockets' # sockets
    /\ sockets'.last.type = type
    /\ sockets'.last.connection = c
    /\ sockets'.last.id = i

\* C18: a subscribe:video for an item the connection is subscribed to, and
\* an unsubscribe:video for one it is not subscribed to, change nothing of
\* the rooms; after an unsubscribe:video the connection is not in the
\* item's room, however often it had subscribed; and a call of
\* emitVideoProgress sends a connection at most one event.
C18_SubscribeIdempotent ==
    [][\A c \in Connections : \A i \in VideoIds :
          /\ (Handles("subscribe:video", c, i) /\ i \in sockets.asked[c]) =>
                /\ sockets'.rooms = sockets.rooms
                /\ VideoRoom(i) \in sockets'.rooms[c]
          /\ Handles("unsubscribe:video", c, i) =>
                /\ i \notin sockets.asked[c] => sockets'.rooms = sockets.rooms
                /\ VideoRoom(i) \notin sockets'.rooms[c]
          /\ PublishStep =>
                Len(sockets'.inbox[c]) <= Len(sockets.inbox[c]) + 1]_vars

\* A connection has sent subscribe:video for an item it was subscribed to,
\* after an event of the item had been sent to it.
C18_Witness ==
    \E c \in sockets.connected : \E i \in VideoIds :
        /\ sockets.last = [type |-> "subscribe:video", connection |-> c,
                           id |-> i, again |-> TRUE]
        /\ VideoRoom(i) \in sockets.rooms[c]
        /\ Len(sockets.inbox[c]) = 1

\* The last request was for a completed item the user may access and whose
\* file is on disk.
Streamable ==
    /\ stream.requests > 0
    /\ stream.video.found
    /\ stream.video.access
    /\ stream.video.status = "completed"
    /\ stream.file.found

\* The range headers bytes=<first>-<last> and bytes=<first>-
RangeText(first, last) == BytesEq \o Digits(first) \o << "-" >> \o Digits(last)

RangeFrom(first) == BytesEq \o Digits(first) \o << "-" >>

\* The response 206 for the bytes first..last of a file of size bytes.
Partial(response, first, last, size) ==
    /\ response.status = 206
    /\ response.contentRange =
          "bytes " \o ToString(first) \o "-" \o ToString(last)
             \o "/" \o ToString(size)
    /\ response.contentLength = Num(last - first + 1)
    /\ response.sent = last - first + 1

\* C19: for a completed item of size S, the range header
\* bytes=<start>-<end> with 0 <= start <= end < S, and bytes=<start>- with
\* start < S (end is then S - 1), is answered 206 with Content-Range
\* 'bytes start-end/S' and Content-Length end - start + 1.
C19_RangeResponse ==
    Streamable =>
       \A first, last \in Offsets :
          /\ (first <= last /\ last < stream.file.size
                 /\ stream.range = RangeText(first, last)) =>
                Partial(stream.response, first, last, stream.file.size)
          /\ (first < stream.file.size /\ stream.range = RangeFrom(first)) =>
                Partial(stream.response, first, stream.file.size - 1,
                        stream.file.size)

\* bytes=100-199 on 1000 bytes: 'bytes 100-199/1000' and length 100.
C19_Witness ==
    /\ Streamable
    /\ stream.file.size = 1000
    /\ stream.range = BytesEq \o << "1", "0", "0", "-", "1", "9", "9" >>
    /\ stream.response.status = 206
    /\ stream.response.contentRange = "bytes 100-199/1000"
    /\ stream.response.contentLength = Num(100)

\* C20: for a completed item of size S, a range header whose start is a
\* number >= S is answered 416, whatever follows the dash, and no byte of
\* the file is sent.
C20_RangeNotSatisfiable ==
    Streamable =>
       \A first \in Offsets : \A rest \in OffsetTexts :
          (first >= stream.file.size
             /\ stream.range = RangeFrom(first) \o rest) =>
                /\ stream.response.status = 416
                /\ stream.response.sent = 0
                /\ stream.response.contentRange = "none"

\* bytes=2000- on 1000 bytes is answered 416.
C20_Witness ==
    /\ Streamable
    /\ stream.file.size = 1000
    /\ stream.range = BytesEq \o << "2", "0", "0", "0", "-" >>
    /\ stream.response.status = 416
    /\ stream.response.sent = 0

\* The range header bytes=<a>-<b> for texts a and b.
RangeOf(a, b) == BytesEq \o a \o << "-" >> \o b

\* The texts of OffsetTexts that are not empty and hold no number.
NotNumbers == { a \in OffsetTexts : a # << >> /\ a[1] \notin DOMAIN DigitValue }

\* The last request carried a range header whose start is not a number, or
\* whose end is beyond the last byte of the file, or whose start is
\* greater than its end.
BadRange ==
    \/ \E a \in NotNumbers : \E b \in OffsetTexts : stream.range = RangeOf(a, b)
    \/ \E first, last \in Offsets :
          /\ stream.range = RangeText(first, last)
          /\ last >= stream.file.size \/ first > last

\* The headers of a 206 describe a span inside the file.
SpanInsideFile(response, size) ==
    /\ ~response.first.nan /\ ~response.last.nan
    /\ 0 <= response.first.val
    /\ response.first.val <= response.last.val
    /\ response.last.val < size
    /\ response.contentLength = Num(response.last.val - response.first.val + 1)

\* C21: on a completed item, a range header that is malformed (start not a
\* number) or out of bounds (end beyond the last byte, or start greater
\* than end) is answered 416; no 206 carries a Content-Range or a
\* Content-Length that is not a span inside the file, and no range request
\* is answered 5xx.
C21_BadRangeIs416 ==
    (Streamable /\ stream.range # << >>) =>
       /\ BadRange => stream.response.status = 416
       /\ stream.response.status = 206 =>
             SpanInsideFile(stream.response, stream.file.size)
       /\ stream.response.status < 500

\* C22: on a completed item with a file that is not empty, a range header
\* that gives no start, bytes=-<end> with end inside the file or bytes=-,
\* is read with start 0: the answer is 206 and its Content-Range begins at
\* byte 0.
C22_MissingStartIsZero ==
    (Streamable /\ stream.file.size > 0) =>
       \A last \in Offsets :
          /\ (last < stream.file.size
                 /\ stream.range = RangeOf(<< >>, Digits(last))) =>
                Partial(stream.response, 0, last, stream.file.size)
          /\ stream.range = RangeOf(<< >>, << >>) =>
                Partial(stream.response, 0, stream.file.size - 1,
                        stream.file.size)

\* A step of the stream route: one more request answered.
StreamStep == stream'.requests = stream.requests + 1

\* C23: the stream route sends bytes of the file only for a completed
\* item; a request for a missing item or for a pending, processing or
\* failed one is answered 4xx, sends no byte and changes no field of any
\* record, the view counter included.
C23_OnlyCompletedStream ==
    [][StreamStep =>
         /\ stream'.response.sent > 0 =>
               stream.video.found /\ stream.video.status = "completed"
         /\ (~stream.video.found \/ stream.video.status # "completed") =>
               /\ stream'.response.status \in 400..499
               /\ stream'.response.sent = 0
               /\ stream'.video = stream.video
               /\ videos' = videos]_vars

\* A request without range header for an item the user may access, still
\* processing and with its file on disk, was answered 400 and not counted.
C23_Witness ==
    /\ stream.requests > 0
    /\ stream.video.found /\ stream.video.access /\ stream.file.found
    /\ stream.video.status = "processing"
    /\ stream.range = << >>
    /\ stream.response.status = 400
    /\ stream.video.views = 0

\* The item is completed, the user may access it and its file is on disk.
Playable ==
    /\ stream.video.found
    /\ stream.video.access
    /\ stream.video.status = "completed"
    /\ stream.file.found

\* C24: a request on a completed, accessible item adds exactly 1 to the
\* view counter when it has no range header or the header 'bytes=0-', and
\* leaves the counter as it is for every other range header; the counter
\* is the number of requests made with no range header or 'bytes=0-'.
C24_ViewCounter ==
    /\ [](Playable => stream.video.views = stream.initial)
    /\ [][(StreamStep /\ Playable) =>
             stream'.video.views =
                IF stream'.range = << >>
                   \/ stream'.range = BytesEq \o << "0", "-" >>
                THEN stream.video.views + 1
                ELSE stream.video.views]_vars

\* A request with 'bytes=0-' was counted and the seek to byte 100 that
\* followed was not.
C24_Witness ==
    /\ Playable
    /\ stream.file.size = 1000
    /\ stream.requests = 2
    /\ stream.initial = 1
    /\ stream.range = RangeText(100, 199)
    /\ stream.response.status = 206
    /\ stream.video.views = 1

\* C30: a request answered 416 leaves the view counter of the item as it
\* was, for every file size, the empty file included, and every range
\* header, 'bytes=0-' included.
C30_NotSatisfiableNotCounted ==
    [][(StreamStep /\ stream'.response.status = 416) =>
          stream'.video.views = stream.video.views]_vars

\* C25: in every reachable state a stored item has a processingError only
\* if its status is failed; an item that is completed after an earlier
\* failure has none.
C25_ErrorOnlyWhenFailed ==
    \A i \in Stored :
        videos[i].processingError # NoError => videos[i].status = "failed"

\* The progress checkpoint of each stage that is not error.
Checkpoint ==
    [s \in Stages \ {"error"} |->
        CASE s = "queued" -> 0
          [] s = "extracting_metadata" -> 10
          [] s = "generating_thumbnail" -> 30
          [] s = "analyzing_content" -> 50
          [] s = "finalizing" -> 90
          [] s = "done" -> 100]

\* C26: in every reachable state, a stored item whose stage is one of the
\* six stages that are not error has the progress of that stage: queued 0,
\* extracting_metadata 10, generating_thumbnail 30, analyzing_content 50,
\* finalizing 90, done 100.
C26_StageCheckpoint ==
    \A i \in Stored :
        videos[i].processingStage # "error" =>
            videos[i].processingProgress = Checkpoint[videos[i].processingStage]

\* Frame r publishes an event in this step.
Publishes(r) ==
    /\ RunStep(r)
    /\ Len(runs'[r].events) = Len(runs[r].events) + 1

\* The event frame r has published last, after the step.
Published(r) == runs'[r].events[Len(runs'[r].events)]

\* The pcs at which a run waits for one of its five saves.
SavePcs == {"save1", "save2", "save3", "save4", "save5"}

\* C27: an event published for an item carries the status, stage and
\* progress the stored record has at that moment, and a run whose save of a
\* stage failed publishes no event for that stage.
C27_EventMirrorsRecord ==
    [][\A r \in RunIds :
          /\ Publishes(r) =>
                /\ exists'[runs[r].videoId] = "stored"
                /\ Published(r).status = videos'[runs[r].videoId].status
                /\ Published(r).stage = videos'[runs[r].videoId].processingStage
                /\ Published(r).progress =
                      videos'[runs[r].videoId].processingProgress
          /\ (RunStep(r) /\ runs[r].pc \in SavePcs /\ runs'[r].pc = "catch") =>
                runs'[r].events = runs[r].events]_vars

\* The number of occurrences of id i in the sequence q.
Occurrences(q, i) == Cardinality({ k \in 1..Len(q) : q[k] = i })

\* C28: for every id, at every moment, the number of add(id) calls made so
\* far is the number of occurrences of id in the queue plus the number of
\* runs of id started so far: no submission is dropped or merged with
\* another, and no run starts without a submission.
C28_AddsAccounted ==
    \A i \in VideoIds : adds[i] = Occurrences(queue, i) + started[i]

\* v1 was submitted three times, the last two while a run of v1 was in
\* progress: two runs of v1 have started and the third submission waits.
C28_Witness ==
    /\ adds["v1"] = 3
    /\ started["v1"] = 2
    /\ Len(runs) = 2
    /\ \A r \in RunIds : runs[r].videoId = "v1"
    /\ queue = << "v1" >>

\* C29: after every add() and every completion handler, a queue that is
\* not empty means activeJobs = concurrency; activeJobs is the number of
\* runs started whose completion handler has not run, and is never
\* negative.
C29_NoIdleSlot ==
    /\ Len(queue) > 0 => activeJobs = concurrency
    /\ activeJobs = Len(runs)
    /\ activeJobs >= 0

\* An id waits while both slots are taken, after a slot freed by a run
\* that ended was given to the id that waited then.
C29_Witness ==
    /\ Len(queue) > 0
    /\ activeJobs = concurrency
    /\ started["v1"] + started["v2"] > concurrency

====
